---- MODULE Spec2Model ----
(***************************************************************************)
(* Model of check_assigned_locations.py: one GraphQL fetch of the latest   *)
(* orders, a printed analysis of every order, a fixed simulation text and  *)
(* a fixed footer.  The state is the position of main, the response the    *)
(* remote API gives, the value fetch returned, and the sequence of print   *)
(* calls made so far (one event per print call).                           *)
(***************************************************************************)
EXTENDS Integers, Sequences, FiniteSets, TLC

VARIABLES pc, response, orders, idx, out, netCalls, exitStatus

vars == <<pc, response, orders, idx, out, netCalls, exitStatus>>

(***************************************************************************)
(* Bounds and program constants                                            *)
(***************************************************************************)
\* main calls fetch_latest_orders_with_assigned_locations(3): the query's
\* "first" variable, hence the most orders a response carries.
Limit == 3

\* Most line items per order in the model (the query allows up to 100).
MaxItems == 2

(***************************************************************************)
(* The data of a response                                                  *)
(***************************************************************************)
OrderNames == {"#1001", "#1002", "#1003"}

FulfillmentStatuses == {"UNFULFILLED", "FULFILLED", "unfulfilled"}

TotalPriceOf(name) ==
    CASE name = "#1001" -> "10.00"
      [] name = "#1002" -> "25.50"
      [] OTHER          -> "7.25"

FinancialStatusOf(name) ==
    CASE name = "#1001" -> "PAID"
      [] name = "#1002" -> "PENDING"
      [] OTHER          -> "REFUNDED"

\* createdAt is an ISO-8601 string; the model keeps its parts apart.
CreatedAtOf(name) ==
    CASE name = "#1001" -> [date |-> "2025-05-29", time |-> "07:45:10", zone |-> "Z"]
      [] name = "#1002" -> [date |-> "2025-05-30", time |-> "18:12:03", zone |-> "+00:00"]
      [] OTHER          -> [date |-> "2025-05-31", time |-> "09:00:50", zone |-> "Z"]

\* The number an order name carries: names are handed out in creation order.
OrderNumber(name) ==
    CASE name = "#1001" -> 1
      [] name = "#1002" -> 2
      [] OTHER          -> 3

LineItemNodes ==
    { [name |-> "Widget", quantity |-> 2, fulfillableQuantity |-> 1],
      [name |-> "Gadget", quantity |-> 1, fulfillableQuantity |-> 1] }

SeqsUpTo(S, n) == UNION { [1..k -> S] : k \in 0..n }

LineItemEdges == { [node |-> it] : it \in LineItemNodes }

OrderEdge(nm, fs, li) ==
    [node |-> [name |-> nm,
               createdAt |-> CreatedAtOf(nm),
               displayFinancialStatus |-> FinancialStatusOf(nm),
               displayFulfillmentStatus |-> fs,
               totalPrice |-> TotalPriceOf(nm),
               lineItems |-> [edges |-> li]]]

\* The query asks for sortKey: CREATED_AT, reverse: true: a response lists
\* the newest order first and never repeats an order.
NewestFirst(ns) ==
    \A i, j \in 1..Len(ns) : i < j => OrderNumber(ns[i]) > OrderNumber(ns[j])

NameLists == { ns \in SeqsUpTo(OrderNames, Limit) : NewestFirst(ns) }

\* The line items of an order: up to MaxItems lines, no product on two
\* consecutive lines.
LineItemLists ==
    { li \in SeqsUpTo(LineItemEdges, MaxItems) :
        \A k \in 1..(Len(li) - 1) : li[k] # li[k + 1] }

\* The edges list of a well-formed response: at most Limit orders, named ns,
\* with fulfillment statuses fs and line items li.
EdgeList(ns, fs, li) == [i \in 1..Len(ns) |-> OrderEdge(ns[i], fs[i], li[i])]

(***************************************************************************)
(* What the remote API answers.  transport: the outcome of urlopen;        *)
(* body: whether the bytes read parse as JSON; hasErrors: whether the      *)
(* parsed object has an 'errors' key; hasPath: whether result['data']      *)
(* ['orders']['edges'] exists.                                             *)
(***************************************************************************)
SampleEdges == << OrderEdge("#1001", "UNFULFILLED", << >>) >>

ErrorLists == { << >>, <<"Throttled">>, <<"Field 'x' doesn't exist", "Throttled">> }

ExceptionResponses ==
    { [transport |-> t, body |-> b, hasErrors |-> FALSE, errors |-> << >>,
       hasPath |-> p, edges |-> << >>] :
        <<t, b, p>> \in { <<"URLError", "none", FALSE>>,
                          <<"HTTPError", "none", FALSE>>,
                          <<"ok", "malformed", FALSE>>,
                          <<"ok", "json", FALSE>> } }

GraphQLErrorResponses ==
    { [transport |-> "ok", body |-> "json", hasErrors |-> TRUE, errors |-> errs,
       hasPath |-> (es # << >>), edges |-> es] :
        errs \in ErrorLists, es \in { << >>, SampleEdges } }

SuccessResponse(es) ==
    [transport |-> "ok", body |-> "json", hasErrors |-> FALSE, errors |-> << >>,
     hasPath |-> TRUE, edges |-> es]

IsSuccess(resp) ==
    resp.transport = "ok" /\ resp.body = "json" /\ ~resp.hasErrors /\ resp.hasPath

(***************************************************************************)
(* Printed output: one event per print call                                *)
(***************************************************************************)
Ev(tag, s, t, n, q) == [tag |-> tag, s |-> s, t |-> t, n |-> n, q |-> q]

Text(tag, s) == Ev(tag, s, "", 0, 0)

\* Python's None and a list, as one shape.
None == [isNone |-> TRUE, edges |-> << >>]

List(es) == [isNone |-> FALSE, edges |-> es]

(***************************************************************************)
(* fetch_latest_orders_with_assigned_locations                             *)
(***************************************************************************)
\* Variant: the 'errors' key is not looked at.
fetch_try_ignoring_errors(resp) ==
    IF resp.transport # "ok"
    THEN [raised |-> resp.transport, ret |-> None, printed |-> << >>, calls |-> 1]
    ELSE IF resp.body # "json"
    THEN [raised |-> "JSONDecodeError", ret |-> None, printed |-> << >>, calls |-> 1]
    ELSE IF ~resp.hasPath
    THEN [raised |-> "KeyError", ret |-> None, printed |-> << >>, calls |-> 1]
    ELSE [raised |-> "", ret |-> List(resp.edges), printed |-> << >>, calls |-> 1]

\* Variant: the last record of the response is dropped (edges[:-1]).
fetch_try_dropping_last(resp) ==
    IF resp.transport # "ok"
    THEN [raised |-> resp.transport, ret |-> None, printed |-> << >>, calls |-> 1]
    ELSE IF resp.body # "json"
    THEN [raised |-> "JSONDecodeError", ret |-> None, printed |-> << >>, calls |-> 1]
    ELSE IF resp.hasErrors
    THEN [raised |-> "", ret |-> None,
          printed |-> << Ev("GraphQLErrors", "", "", Len(resp.errors), 0) >>,
          calls |-> 1]
    ELSE IF ~resp.hasPath
    THEN [raised |-> "KeyError", ret |-> None, printed |-> << >>, calls |-> 1]
    ELSE [raised |-> "", printed |-> << >>, calls |-> 1,
          ret |-> List(SubSeq(resp.edges, 1, Len(resp.edges) - 1))]

\* The body of the try block: the request, the parse, the 'errors' test and
\* the path lookup.  raised names the exception that leaves the block.
fetch_try(resp) ==
    IF resp.transport # "ok"
    THEN [raised |-> resp.transport, ret |-> None, printed |-> << >>, calls |-> 1]
    ELSE IF resp.body # "json"
    THEN [raised |-> "JSONDecodeError", ret |-> None, printed |-> << >>, calls |-> 1]
    ELSE IF resp.hasErrors
    THEN [raised |-> "", ret |-> None,
          printed |-> << Ev("GraphQLErrors", "", "", Len(resp.errors), 0) >>,
          calls |-> 1]
    ELSE IF ~resp.hasPath
    THEN [raised |-> "KeyError", ret |-> None, printed |-> << >>, calls |-> 1]
    ELSE [raised |-> "", ret |-> List(resp.edges), printed |-> << >>, calls |-> 1]

\* Variant: no except clause, the exception leaves the function.
fetch_without_except(resp) == fetch_try(resp)

\* Variant: except urllib.error.URLError instead of except Exception
\* (HTTPError is a URLError; a parse or lookup failure is not).
fetch_except_URLError(resp) ==
    LET r == fetch_try(resp)
    IN  IF r.raised \in {"URLError", "HTTPError"}
        THEN [raised |-> "", ret |-> None,
              printed |-> r.printed \o << Text("ErrorFetching", r.raised) >>,
              calls |-> r.calls]
        ELSE r

\* Variant: a failed request is tried a second time before giving up.
fetch_with_retry(resp) ==
    LET r == fetch_try(resp)
    IN  IF r.raised # ""
        THEN [raised |-> "", ret |-> None,
              printed |-> r.printed \o << Text("ErrorFetching", r.raised) >>,
              calls |-> r.calls + fetch_try(resp).calls]
        ELSE r

\* The whole function: except Exception prints the failure and returns None.
fetch_latest_orders_with_assigned_locations(resp) ==
    LET r == fetch_try(resp)
    IN  IF r.raised # ""
        THEN [raised |-> "", ret |-> None,
              printed |-> r.printed \o << Text("ErrorFetching", r.raised) >>,
              calls |-> r.calls]
        ELSE r

(***************************************************************************)
(* analyze_assigned_locations                                              *)
(***************************************************************************)
TargetLocationId == "67642458351"

\* createdAt.replace('Z', '+00:00')
ReplaceZ(c) == [c EXCEPT !.zone = IF @ = "Z" THEN "+00:00" ELSE @]

\* datetime.fromisoformat(...).strftime('%Y-%m-%d %H:%M:%S'): the date, a
\* space and the time; the offset is parsed and not printed.
FormatCreated(c) ==
    LET d == ReplaceZ(c) IN Ev("Created", d.date, d.time, 0, 0)

\* Variant: the line items are walked last to first.
LineItemsReversed(order_data) ==
    LET es == order_data.lineItems.edges
    IN  [k \in 1..Len(es) |-> es[Len(es) + 1 - k].node]

\* line_items = [edge['node'] for edge in order_data['lineItems']['edges']]
LineItemsOf(order_data) ==
    [k \in 1..Len(order_data.lineItems.edges) |-> order_data.lineItems.edges[k].node]

\* The for loop over enumerate(line_items, 1): two print calls per item.
RECURSIVE ItemLines(_, _)
ItemLines(line_items, i) ==
    IF i > Len(line_items) THEN << >>
    ELSE << Ev("Item", line_items[i].name, "", i, line_items[i].quantity),
            Ev("Fulfillable", "", "", 0, line_items[i].fulfillableQuantity) >>
         \o ItemLines(line_items, i + 1)

\* Variant: the status is compared without regard to case.
AdvisoryLinesAnyCase(status) ==
    IF status \in {"UNFULFILLED", "unfulfilled"}
    THEN << Text("AdvisoryNormal", "All items are unfulfilled (normal for new orders)"),
            Text("AdvisoryNormal", "App would check the ASSIGNED locations for each line item"),
            Text("AdvisoryNormal", "If assigned to different locations: CONSOLIDATE to USA"),
            Text("AdvisoryNormal", "If all assigned to same location:"),
            Text("AdvisoryNormal", "If USA location: NO ACTION"),
            Text("AdvisoryNormal", "If other location: MOVE to USA location") >>
    ELSE << Text("AdvisoryOther", "Some items may already be processed") >>

\* Lines 104-112: the test on displayFulfillmentStatus and its two branches.
AdvisoryLines(status) ==
    IF status = "UNFULFILLED"
    THEN << Text("AdvisoryNormal", "All items are unfulfilled (normal for new orders)"),
            Text("AdvisoryNormal", "App would check the ASSIGNED locations for each line item"),
            Text("AdvisoryNormal", "If assigned to different locations: CONSOLIDATE to USA"),
            Text("AdvisoryNormal", "If all assigned to same location:"),
            Text("AdvisoryNormal", "If USA location: NO ACTION"),
            Text("AdvisoryNormal", "If other location: MOVE to USA location") >>
    ELSE << Text("AdvisoryOther", "Some items may already be processed") >>

analyze_assigned_locations(order) ==
    LET order_data == order.node
        line_items == LineItemsOf(order_data)
    IN  << Text("AnalyzingOrder", order_data.name),
           FormatCreated(order_data.createdAt),
           Text("Total", order_data.totalPrice),
           Text("FinancialStatus", order_data.displayFinancialStatus),
           Text("FulfillmentStatus", order_data.displayFulfillmentStatus),
           Ev("LineItems", "", "", Len(line_items), 0) >>
        \o ItemLines(line_items, 1)
        \o << Text("AppWouldRun", "1 minute after order creation"),
              Text("TargetLocation", TargetLocationId),
              Text("AppLogic", "APP LOGIC (1 minute after order creation):"),
              Text("AppLogic", "1. Webhook received for order creation"),
              Text("AppLogic", "2. Wait 1 minute (scheduled job)"),
              Text("AppLogic", "3. Fetch line items and their assigned fulfillment locations"),
              Text("AppLogic", "4. Analyze if consolidation is needed:") >>
        \o AdvisoryLines(order_data.displayFulfillmentStatus)
        \o << Text("WouldDo", "WHAT THE APP WOULD DO:"),
              Text("WouldDo", "Query each line item's assigned_location_id"),
              Text("WouldDo", TargetLocationId),
              Text("WouldDo", "If not: Reassign all items to USA location"),
              Text("WouldDo", "Log the changes made") >>

(***************************************************************************)
(* simulate_app_behavior: 23 print calls of fixed text                     *)
(***************************************************************************)
simulate_app_behavior ==
    << Text("Sim", "SIMULATING APP BEHAVIOR..."),
       Text("Sim", "============================================================"),
       Text("Sim", "Order created at: 2025-05-31 09:00:50"),
       Text("Sim", "App scheduled to run at: 2025-05-31 09:01:50"),
       Text("Sim", "App starts processing..."),
       Text("Sim", ""),
       Text("Sim", "STEP 1: Fetch order line items"),
       Text("Sim", "Found 2 line items"),
       Text("Sim", ""),
       Text("Sim", "STEP 2: Check assigned locations"),
       Text("Sim", "Line item 1: Assigned to Australia (67642949871)"),
       Text("Sim", "Line item 2: Assigned to Yoyogi Office (23455432785)"),
       Text("Sim", "Target: USA (67642458351)"),
       Text("Sim", ""),
       Text("Sim", "STEP 3: Analysis"),
       Text("Sim", "Items assigned to multiple locations (Australia + Yoyogi)"),
       Text("Sim", "CONSOLIDATION NEEDED"),
       Text("Sim", ""),
       Text("Sim", "STEP 4: Take action"),
       Text("Sim", "1. Reassign line item 1: Australia -> USA"),
       Text("Sim", "2. Reassign line item 2: Yoyogi -> USA"),
       Text("Sim", "3. Log consolidation action"),
       Text("Sim", "All items now assigned to USA location") >>

KeyDifferenceFooter ==
    << Text("KeyDifference", "KEY DIFFERENCE:"),
       Text("KeyDifference", "WRONG: Wait for fulfillments to be created"),
       Text("KeyDifference", "CORRECT: Check assigned locations 1 minute after order"),
       Text("KeyDifference", "Goal: Prevent items from being fulfilled from wrong locations") >>

Rule == Text("Rule", "======================================================================")

Banner == << Text("Banner", "CHECKING ASSIGNED LOCATIONS (CORRECT APP BEHAVIOR)"), Rule >>

CouldNotFetch == Text("CouldNotFetch", "Could not fetch orders")

(***************************************************************************)
(* main, one action per step                                               *)
(***************************************************************************)
\* Variant: "if orders is None".
OrdersIsNone(o) == o.isNone

\* Python's "not orders": None and the empty list are both falsy.
NotOrders(o) == o.isNone \/ Len(o.edges) = 0

\* Variant: every iteration handles the first order.
OrderAtFirst(o, i) == o.edges[1]

\* Variant: the orders are walked last to first.
OrderAtReversed(o, i) == o.edges[Len(o.edges) + 1 - i]

\* The order the loop body handles at its i-th iteration (1-based).
OrderAt(o, i) == o.edges[i]

\* "if i < len(orders) - 1" with a 0-based i, here 1-based.
NotLast(o, i) == i < Len(o.edges)

Init ==
    /\ pc = "start"
    /\ \/ response \in ExceptionResponses
       \/ response \in GraphQLErrorResponses
       \/ \E ns \in NameLists :
            \E fs \in [1..Len(ns) -> FulfillmentStatuses] :
              \E li \in [1..Len(ns) -> LineItemLists] :
                response = SuccessResponse(EdgeList(ns, fs, li))
    /\ orders = None
    /\ idx = 0
    /\ out = << >>
    /\ netCalls = 0
    /\ exitStatus = -1

\* Lines 152-153: the banner.
MainBanner ==
    /\ pc = "start"
    /\ out' = out \o Banner
    /\ pc' = "fetch"
    /\ UNCHANGED <<response, orders, idx, netCalls, exitStatus>>

\* Line 155: the call of fetch; an exception leaving it would leave main.
MainFetch ==
    /\ pc = "fetch"
    /\ LET r == fetch_latest_orders_with_assigned_locations(response)
       IN  /\ netCalls' = netCalls + r.calls
           /\ out' = out \o r.printed
           /\ orders' = r.ret
           /\ IF r.raised # ""
              THEN pc' = "crashed" /\ exitStatus' = 1
              ELSE pc' = "check" /\ exitStatus' = exitStatus
    /\ UNCHANGED <<response, idx>>

\* Lines 157-159: nothing to report.
MainCouldNotFetch ==
    /\ pc = "check"
    /\ NotOrders(orders)
    /\ out' = out \o << CouldNotFetch >>
    /\ pc' = "done"
    /\ exitStatus' = 0
    /\ UNCHANGED <<response, orders, idx, netCalls>>

\* Line 161.
MainFound ==
    /\ pc = "check"
    /\ ~NotOrders(orders)
    /\ out' = out \o << Ev("Found", "", "", Len(orders.edges), 0) >>
    /\ idx' = 1
    /\ pc' = "loop"
    /\ UNCHANGED <<response, orders, netCalls, exitStatus>>

\* Lines 164-167: one iteration of the loop.
MainAnalyze ==
    /\ pc = "loop"
    /\ idx <= Len(orders.edges)
    /\ out' = out \o analyze_assigned_locations(OrderAt(orders, idx))
                  \o (IF NotLast(orders, idx) THEN << Rule >> ELSE << >>)
    /\ idx' = idx + 1
    /\ pc' = "loop"
    /\ UNCHANGED <<response, orders, netCalls, exitStatus>>

\* Lines 169-170, reached when the loop has run out of orders.
MainSimulate ==
    /\ pc = "loop"
    /\ idx > Len(orders.edges)
    /\ out' = out \o << Rule >> \o simulate_app_behavior
    /\ pc' = "footer"
    /\ UNCHANGED <<response, orders, idx, netCalls, exitStatus>>

\* Lines 172-175, and the return of main.
MainFooter ==
    /\ pc = "footer"
    /\ out' = out \o KeyDifferenceFooter
    /\ pc' = "done"
    /\ exitStatus' = 0
    /\ UNCHANGED <<response, orders, idx, netCalls>>

Next ==
    \/ MainBanner
    \/ MainFetch
    \/ MainCouldNotFetch
    \/ MainFound
    \/ MainAnalyze
    \/ MainSimulate
    \/ MainFooter

Spec == Init /\ [][Next]_vars

TypeOK ==
    /\ pc \in {"start", "fetch", "check", "loop", "footer", "done", "crashed"}
    /\ orders.isNone \in BOOLEAN
    /\ idx \in 0..(Limit + 1)
    /\ netCalls \in 0..2
    /\ exitStatus \in {-1, 0, 1}

(***************************************************************************)
(* Reading the output                                                      *)
(***************************************************************************)
Positions(tag) == { p \in 1..Len(out) : out[p].tag = tag }

Count(seq, tag) == Cardinality({ p \in 1..Len(seq) : seq[p].tag = tag })

\* The first position at or after p that carries the tag; Len(out) + 1 if
\* there is none.
FirstFrom(tag, p) ==
    LET S == { q \in p..Len(out) : out[q].tag = tag }
    IN  IF S = {} THEN Len(out) + 1 ELSE CHOOSE q \in S : \A r \in S : q <= r

\* The last position at or before p that carries the tag; 0 if there is none.
LastUpTo(tag, p) ==
    LET S == { q \in 1..p : out[q].tag = tag }
    IN  IF S = {} THEN 0 ELSE CHOOSE q \in S : \A r \in S : q >= r

\* The positions of the "ANALYZING ORDER" lines at or after p, in order.
RECURSIVE StartsFrom(_)
StartsFrom(p) ==
    LET q == FirstFrom("AnalyzingOrder", p)
    IN  IF q > Len(out) THEN << >> ELSE << q >> \o StartsFrom(q + 1)

SectionStarts == StartsFrom(1)

NumSections == Len(SectionStarts)

\* Where the j-th "ANALYZING ORDER" section starts, and where it ends: before
\* the next rule line, or at the end of the output.
SectionStart(j) == SectionStarts[j]

SectionEnd(j) == FirstFrom("Rule", SectionStart(j) + 1) - 1

Section(j) == SubSeq(out, SectionStart(j), SectionEnd(j))

\* The same, given the section starts.
SectionAt(starts, j) == SubSeq(out, starts[j], FirstFrom("Rule", starts[j] + 1) - 1)

IsErrorLine(e) == e.tag \in {"GraphQLErrors", "ErrorFetching", "CouldNotFetch"}

ErrorLines == SelectSeq(out, IsErrorLine)

IsItemLoopLine(e) == e.tag \in {"Item", "Fulfillable"}

SimulationPrinted ==
    LET p == FirstFrom("Sim", 1)
    IN  /\ p + Len(simulate_app_behavior) - 1 <= Len(out)
        /\ SubSeq(out, p, p + Len(simulate_app_behavior) - 1) = simulate_app_behavior
        /\ LastUpTo("Sim", Len(out)) = p + Len(simulate_app_behavior) - 1

FooterIsLast ==
    /\ Len(out) >= Len(KeyDifferenceFooter)
    /\ SubSeq(out, Len(out) - Len(KeyDifferenceFooter) + 1, Len(out)) = KeyDifferenceFooter

AfterFetch == pc \notin {"start", "fetch"}

\* The fetch returned at least one order.
FetchedSome == ~orders.isNone /\ Len(orders.edges) >= 1

\* The response parses and carries a non-empty GraphQL error list.
HasGraphQLErrors(resp) ==
    resp.transport = "ok" /\ resp.body = "json" /\ resp.hasErrors /\ Len(resp.errors) >= 1

\* The request, the parse or the path lookup raises.
RaisesInFetch(resp) ==
    \/ resp.transport # "ok"
    \/ resp.body # "json"
    \/ ~resp.hasErrors /\ ~resp.hasPath

(***************************************************************************)
(* C1                                                                      *)
(***************************************************************************)
\* C1: for a well-formed response without an 'errors' key that carries k
\* orders (0 <= k <= Limit), a finished run has printed exactly k "ANALYZING
\* ORDER" sections, the j-th one headed by the name of the j-th order of the
\* response and holding one total line, with that order's total price.
SectionsMatchResponse ==
    (IsSuccess(response) /\ pc = "done") =>
        /\ NumSections = Len(response.edges)
        /\ \A j \in 1..Len(response.edges) :
              LET sec == SectionAt(SectionStarts, j)
              IN  /\ sec[1] = Text("AnalyzingOrder", response.edges[j].node.name)
                  /\ Count(sec, "Total") = 1
                  /\ sec[3] = Text("Total", response.edges[j].node.totalPrice)

ThreeSectionsPrinted ==
    /\ pc = "done"
    /\ IsSuccess(response)
    /\ Len(response.edges) = 3
    /\ NumSections = 3

(***************************************************************************)
(* C2                                                                      *)
(***************************************************************************)
\* C2: after a successful fetch of k >= 1 orders the sections appear in the
\* order of the response, every section ends before the simulation text
\* starts, the simulation text ends before the footer starts, and when main
\* has returned the "KEY DIFFERENCE" footer is the last thing printed.
OutputOrdered ==
    (IsSuccess(response) /\ Len(response.edges) >= 1) =>
        LET starts == SectionStarts
            firstSim == FirstFrom("Sim", 1)
        IN  /\ Len(starts) <= Len(response.edges)
            /\ \A j \in 1..Len(starts) :
                  /\ out[starts[j]].s = response.edges[j].node.name
                  /\ FirstFrom("Rule", starts[j] + 1) - 1 < firstSim
            /\ LastUpTo("AnalyzingOrder", Len(out)) < firstSim
            /\ LastUpTo("Sim", Len(out)) < FirstFrom("KeyDifference", 1)
            /\ pc = "done" =>
                  /\ Len(starts) = Len(response.edges)
                  /\ SimulationPrinted
                  /\ FooterIsLast

TwoOrdersThenSimulationThenFooter ==
    /\ pc = "done"
    /\ IsSuccess(response)
    /\ Len(response.edges) = 2
    /\ response.edges[1].node.displayFulfillmentStatus = "UNFULFILLED"
    /\ Len(response.edges[1].node.lineItems.edges) = 1
    /\ response.edges[2].node.displayFulfillmentStatus = "FULFILLED"
    /\ Len(response.edges[2].node.lineItems.edges) = 2
    /\ NumSections = 2
    /\ FooterIsLast

(***************************************************************************)
(* C3                                                                      *)
(***************************************************************************)
\* C3 as stated: with a non-empty GraphQL error list the fetch returns None
\* and the whole run prints exactly one error line and raises nothing.
OneErrorLineOnGraphQLErrors ==
    (HasGraphQLErrors(response) /\ pc = "done") =>
        /\ orders = None
        /\ exitStatus = 0
        /\ Len(ErrorLines) = 1

\* C3 as amended: with a non-empty GraphQL error list the fetch returns None
\* and prints one "GraphQL errors" line, main adds its own "Could not fetch
\* orders" line (two error lines in the whole run), no section is printed and
\* no exception leaves main.
TwoErrorLinesOnGraphQLErrors ==
    HasGraphQLErrors(response) =>
        /\ pc \in {"start", "fetch", "check", "done"}
        /\ AfterFetch =>
              /\ orders = None
              /\ Count(out, "GraphQLErrors") = 1
              /\ Count(out, "ErrorFetching") = 0
        /\ pc = "done" =>
              /\ ErrorLines = << Ev("GraphQLErrors", "", "", Len(response.errors), 0),
                                 CouldNotFetch >>
              /\ out = Banner \o ErrorLines
              /\ exitStatus = 0

GraphQLErrorsRunFinished ==
    /\ pc = "done"
    /\ HasGraphQLErrors(response)
    /\ Len(response.errors) = 2
    /\ response.hasPath
    /\ Len(ErrorLines) = 2

(***************************************************************************)
(* C4                                                                      *)
(***************************************************************************)
\* C4: when the request, the parse or the path lookup raises, no exception
\* leaves fetch or main: the failure is printed once, the fetch yields None,
\* no "ANALYZING ORDER" section is printed and main runs on to a normal
\* return.
ExceptionNeverPropagates ==
    RaisesInFetch(response) =>
        /\ pc \in {"start", "fetch", "check", "done"}
        /\ exitStatus # 1
        /\ NumSections = 0
        /\ AfterFetch =>
              /\ orders = None
              /\ Count(out, "ErrorFetching") = 1
        /\ pc = "done" => exitStatus = 0
        /\ pc # "done" => ENABLED Next

MalformedJsonRunFinished ==
    /\ pc = "done"
    /\ response.body = "malformed"
    /\ orders = None
    /\ exitStatus = 0
    /\ Count(out, "ErrorFetching") = 1

(***************************************************************************)
(* C5                                                                      *)
(***************************************************************************)
\* C5 as stated: every run prints the simulation and then exits with
\* status 0, whether the fetch succeeded or failed.
EveryRunPrintsSimulation ==
    pc = "done" => (SimulationPrinted /\ exitStatus = 0)

\* C5 as amended: every run exits with status 0, whether the fetch succeeded
\* or failed; the simulation is printed before that exactly when the fetch
\* returned at least one order.
EveryRunExitsZero ==
    /\ pc # "crashed"
    /\ exitStatus \in {-1, 0}
    /\ exitStatus = 0 <=> pc = "done"
    /\ pc = "done" => (SimulationPrinted <=> FetchedSome)
    /\ pc # "done" => ENABLED Next

FailedRunExitsZeroWithoutSimulation ==
    /\ pc = "done"
    /\ exitStatus = 0
    /\ response.transport = "HTTPError"
    /\ ~SimulationPrinted

(***************************************************************************)
(* C6                                                                      *)
(***************************************************************************)
\* C6: on every path exactly one network request is issued, by the fetch:
\* none before the fetch has run, one ever after, whatever the response.
ExactlyOneRequest ==
    netCalls = IF AfterFetch THEN 1 ELSE 0

OneRequestOnTransportFailure ==
    /\ pc = "done"
    /\ response.transport = "URLError"
    /\ netCalls = 1

(***************************************************************************)
(* C7                                                                      *)
(***************************************************************************)
\* C7: the section of an order holds the "normal for new orders" branch if
\* and only if the order's fulfillment status is exactly "UNFULFILLED", and
\* the "Some items may already be processed" branch otherwise: one of the
\* two, never both, never neither.
AdvisoryBranchByStatus ==
    \A j \in 1..NumSections :
        LET sec == SectionAt(SectionStarts, j)
            status == orders.edges[j].node.displayFulfillmentStatus
            normal == Text("AdvisoryNormal", "All items are unfulfilled (normal for new orders)")
            other == Text("AdvisoryOther", "Some items may already be processed")
        IN  /\ (\E p \in 1..Len(sec) : sec[p] = normal) <=> status = "UNFULFILLED"
            /\ (\E p \in 1..Len(sec) : sec[p] = other) <=> status # "UNFULFILLED"
            /\ (Count(sec, "AdvisoryNormal") > 0) # (Count(sec, "AdvisoryOther") > 0)

BothBranchesPrinted ==
    /\ pc = "done"
    /\ NumSections = 3
    /\ orders.edges[1].node.displayFulfillmentStatus = "unfulfilled"
    /\ orders.edges[2].node.displayFulfillmentStatus = "UNFULFILLED"
    /\ orders.edges[3].node.displayFulfillmentStatus = "FULFILLED"
    /\ Count(Section(1), "AdvisoryOther") = 1
    /\ Count(Section(2), "AdvisoryNormal") = 6

(***************************************************************************)
(* C8                                                                      *)
(***************************************************************************)
\* C8 as stated: the section of an order with n line items holds exactly n
\* lines printed for its line items, one per item.
OneLinePerLineItem ==
    \A j \in 1..NumSections :
        Len(SelectSeq(Section(j), IsItemLoopLine))
            = Len(orders.edges[j].node.lineItems.edges)

\* C8 as amended: the section of an order with n line items holds, for each
\* item in line-item order, one numbered line with the item's name and
\* quantity followed by one "Fulfillable" line: n numbered lines, 2n lines
\* for the items in all.
TwoLinesPerLineItem ==
    \A j \in 1..NumSections :
        LET sec == SectionAt(SectionStarts, j)
            items == orders.edges[j].node.lineItems.edges
            n == Len(items)
            lines == SelectSeq(sec, IsItemLoopLine)
        IN  /\ Count(sec, "Item") = n
            /\ Len(lines) = 2 * n
            /\ lines = SubSeq(sec, 7, 6 + 2 * n)
            /\ sec[6] = Ev("LineItems", "", "", n, 0)
            /\ \A i \in 1..n :
                  /\ lines[2 * i - 1] =
                        Ev("Item", items[i].node.name, "", i, items[i].node.quantity)
                  /\ lines[2 * i] =
                        Ev("Fulfillable", "", "", 0, items[i].node.fulfillableQuantity)

TwoLineItemsPrinted ==
    /\ pc = "done"
    /\ NumSections >= 1
    /\ Len(orders.edges[1].node.lineItems.edges) = 2
    /\ orders.edges[1].node.lineItems.edges[1].node.name = "Gadget"
    /\ Len(SelectSeq(Section(1), IsItemLoopLine)) = 4

(***************************************************************************)
(* C9                                                                      *)
(***************************************************************************)
\* C9: on success the value fetch returns is the list of order records of
\* the response: the same records, as many, in the same order.
FetchReturnsEdgesAsReceived ==
    (IsSuccess(response) /\ AfterFetch) =>
        /\ ~orders.isNone
        /\ Len(orders.edges) = Len(response.edges)
        /\ \A j \in 1..Len(response.edges) : orders.edges[j] = response.edges[j]

ThreeOrdersFetched ==
    /\ pc = "check"
    /\ IsSuccess(response)
    /\ Len(response.edges) = 3
    /\ Len(orders.edges) = 3

(***************************************************************************)
(* C10                                                                     *)
(***************************************************************************)
\* C10: a successful fetch of an empty order list ends like a failed one:
\* main prints "Could not fetch orders" and returns, with no "Found" line, no
\* simulation and no footer; a finished run has the "Found" line, the
\* simulation and the footer if and only if the fetch returned at least one
\* order, and the "Could not fetch orders" line otherwise.
EmptyListHandledAsFailure ==
    pc = "done" =>
        /\ (IsSuccess(response) /\ Len(response.edges) = 0) =>
              out = Banner \o << CouldNotFetch >>
        /\ Count(out, "Found") = (IF FetchedSome THEN 1 ELSE 0)
        /\ Count(out, "Sim") = (IF FetchedSome THEN Len(simulate_app_behavior) ELSE 0)
        /\ Count(out, "KeyDifference") = (IF FetchedSome THEN Len(KeyDifferenceFooter) ELSE 0)
        /\ Count(out, "CouldNotFetch") = (IF FetchedSome THEN 0 ELSE 1)

EmptyListRunFinished ==
    /\ pc = "done"
    /\ IsSuccess(response)
    /\ response.edges = << >>
    /\ orders = List(<< >>)
    /\ out = Banner \o << CouldNotFetch >>

====
